---- MODULE Spec2Model ----
(***************************************************************************)
(* The timeline pane (timelinePane.ts): per-source paged fetches merged    *)
(* into one list, with cancellation, cursors, the load-more sentinel and   *)
(* the refresh timers.                                                     *)
(*                                                                         *)
(* JavaScript `undefined` is written as a value of the field's own type:   *)
(* 0 for a cursor or an item id, NoUri for a resource, "" for a source or  *)
(* a themeIcon.                                                            *)
(***************************************************************************)
EXTENDS Integers, Sequences, FiniteSets, TLC

VARIABLES
    uri,            \* this._uri
    excluded,       \* this._excludedSources
    providers,      \* timelineService.getSources()
    cursors,        \* this._cursorsByProvider
    items,          \* this._items (the elements)
    pending,        \* this._pendingRequests
    requests,       \* requests whose result promise has not settled yet
    cancelled,      \* token sources of unsettled requests on which cancellation was requested
    nreq,           \* number of requests issued so far (request ids)
    loadingTimer,   \* this._loadingMessageTimer
    debounceTimer,  \* the timer behind @debounce(500) refreshDebounced
    tree,           \* last argument of this._tree.setChildren
    message,        \* this._message
    visible,        \* whether the visibility subscriptions are live
    grown,          \* items the growing source gained since start
    nvis,           \* visibility changes so far
    nenv,           \* handler runs of external events so far
    orphan,         \* history: the debounce timer was live when the pane was deactivated
                    \* and has neither fired nor been rescheduled since
    hidden          \* history: sources a configuration change excluded while the list held
                    \* their items, and that have stayed excluded since

vars == <<uri, excluded, providers, cursors, items, pending, requests, cancelled,
          nreq, loadingTimer, debounceTimer, tree, message, visible, grown, nvis, nenv, orphan, hidden>>

----------------------------------------------------------------------------
\* Program constants

InitialPageSize == 20
SubsequentPageSize == 40

\* Bounds of the model
MaxRequests == 3
MaxGrow == 1
MaxEnv == 3
MaxVisible == 2

----------------------------------------------------------------------------
\* Values

Sources == {"git2", "Git10"}

NoUri == [scheme |-> "", path |-> ""]
FileA == [scheme |-> "file", path |-> "/a"]
FileB == [scheme |-> "file", path |-> "/b"]
Settings == [scheme |-> "vscode-settings", path |-> "/s"]
Resources == {FileA, FileB, Settings}

UnsupportedSchemes == {"vscode-settings", "webview-panel", "walkThrough"}

\* Handles and ids are numbers: the handle of a source's item numbers the
\* source, the path and the position of the item in the source's history.
LoadMoreHandle == 0
Spin == "sync~spin"

MsgCannot == "The active editor cannot provide timeline information."
MsgLoading == "Loading timeline..."
MsgNoInfo == "No timeline information was provided."
MsgNone == ""

NoCursors == [before |-> 0, after |-> 0]
NoEntry == [present |-> FALSE, startCursors |-> NoCursors, endCursors |-> NoCursors, more |-> FALSE]
NoPending == [id |-> 0, token |-> 0]
NoTimer == [live |-> FALSE, uri |-> NoUri]
NoTree == [defined |-> FALSE, list |-> <<>>]

CommandItem == [handle |-> LoadMoreHandle, source |-> "", timestamp |-> 0, id |-> 0, themeIcon |-> ""]

isLoadMoreCommandItem(item) == item.handle = LoadMoreHandle

Max(a, b) == IF a >= b THEN a ELSE b
Min(a, b) == IF a <= b THEN a ELSE b

----------------------------------------------------------------------------
\* The sources' data and their answer to a fetch.

\* Number of items a source holds for a path at the start.
Base(s, path) ==
    CASE s = "git2" /\ path = "/a" -> 25
      [] s = "Git10" /\ path = "/a" -> 2
      [] s = "git2" /\ path = "/b" -> 2
      [] s = "Git10" /\ path = "/b" -> 41
      [] OTHER -> 0

GrowingSource == "git2"

Held(s, u) == Base(s, u.path) + (IF s = GrowingSource THEN grown ELSE 0)

\* Items are numbered by position, 1 the oldest; timestamps grow with position.
SourceNumber(s) == IF s = "git2" THEN 1 ELSE 2
PathNumber(path) == IF path = "/a" THEN 1 ELSE 2

TsOffset(s, path) ==
    CASE s = "Git10" /\ path = "/a" -> 23
      [] s = "Git10" /\ path = "/b" -> 1
      [] OTHER -> 0

\* The items of git2 carry an id, those of Git10 none.
TimelineItem(s, u, pos) ==
    LET handle == SourceNumber(s) * 1000 + PathNumber(u.path) * 100 + pos
    IN [handle |-> handle,
        source |-> s,
        timestamp |-> TsOffset(s, u.path) + pos,
        id |-> IF s = "git2" THEN handle ELSE 0,
        themeIcon |-> ""]

\* Highest and lowest position of the page a request asks for.
PageHi(r) ==
    IF r.cursor = 0 THEN Held(r.source, r.uri)
    ELSE IF r.before THEN Min(Held(r.source, r.uri), r.cursor + r.limit)
    ELSE r.cursor - 1

PageLo(r) ==
    IF r.cursor = 0
    THEN IF r.upTo # 0 THEN r.upTo ELSE Max(1, Held(r.source, r.uri) - r.limit + 1)
    ELSE IF r.before THEN r.cursor + 1
    ELSE Max(1, r.cursor - r.limit)

PageItems(r) ==
    IF PageHi(r) < PageLo(r) THEN <<>>
    ELSE [i \in 1..(PageHi(r) - PageLo(r) + 1) |-> TimelineItem(r.source, r.uri, PageHi(r) - i + 1)]

PageCursors(r) ==
    IF PageHi(r) < PageLo(r) THEN [before |-> r.cursor, after |-> r.cursor]
    ELSE [before |-> PageHi(r), after |-> PageLo(r)]

\* Whether older items remain below the page.
OlderRemain(r) ==
    IF PageHi(r) >= PageLo(r) THEN PageLo(r) > 1
    ELSE IF r.before THEN r.cursor > 1 ELSE FALSE

\* How a source reports paging for a path:
\*   "exact" - paging with a more flag that tells whether older items remain
\*   "guess" - paging whose more flag is true until a page comes back empty
\*   "after" - as "exact", but the cursors carry no before cursor
\*   "bare"  - no paging information (none of the sources below)
Style(s, path) ==
    CASE s = "git2" /\ path = "/b" -> "guess"
      [] s = "Git10" /\ path = "/b" -> "after"
      [] OTHER -> "exact"

\* What a fetch settles with: a rejection, undefined, or a Timeline.
Outcomes == {"reject", "undefined", "timeline"}

Timeline(r) ==
    [items |-> PageItems(r),
     hasPaging |-> Style(r.source, r.uri.path) # "bare",
     cursors |-> IF Style(r.source, r.uri.path) = "after"
                 THEN [PageCursors(r) EXCEPT !.before = 0]
                 ELSE PageCursors(r),
     more |-> IF Style(r.source, r.uri.path) = "guess" THEN PageItems(r) # <<>> ELSE OlderRemain(r)]

----------------------------------------------------------------------------
\* The item list: sortItems, mergeItems, replaceItems.

\* Source names as String.prototype.localeCompare reads them with
\* { numeric: true, sensitivity: 'base' }: a run of letters compared without
\* case, then a run of digits compared as a number.
NameLetters(s) == CASE s = "git2" -> "git" [] s = "Git10" -> "Git" [] OTHER -> s
NameNumber(s) == CASE s = "git2" -> 2 [] s = "Git10" -> 10 [] OTHER -> 0
BaseLetters(l) == IF l = "Git" THEN "git" ELSE l
LettersRank(l) == CASE l = "Git" -> 1 [] l = "git" -> 2 [] OTHER -> 0

Sign(n) == IF n < 0 THEN -1 ELSE IF n > 0 THEN 1 ELSE 0

\* localeCompare without { numeric: true }: digits compared as characters,
\* "10" before "2".
FirstDigit(n) == IF n >= 10 THEN n \div 10 ELSE n

localeCompareByCharacter(a, b) ==
    IF BaseLetters(NameLetters(a)) # BaseLetters(NameLetters(b))
    THEN Sign(LettersRank(BaseLetters(NameLetters(a))) - LettersRank(BaseLetters(NameLetters(b))))
    ELSE Sign(FirstDigit(NameNumber(a)) - FirstDigit(NameNumber(b)))

localeCompare(a, b) ==
    IF BaseLetters(NameLetters(a)) # BaseLetters(NameLetters(b))
    THEN Sign(LettersRank(BaseLetters(NameLetters(a))) - LettersRank(BaseLetters(NameLetters(b))))
    ELSE Sign(NameNumber(a) - NameNumber(b))

\* The comparator handed to Array.prototype.sort.
Compare(a, b) ==
    IF b.timestamp - a.timestamp # 0 THEN b.timestamp - a.timestamp
    ELSE IF a.source = ""
         THEN IF b.source = "" THEN 0 ELSE 1
         ELSE IF b.source = "" THEN -1 ELSE localeCompare(b.source, a.source)

\* Array.prototype.sort is stable: an element comes after the elements that
\* compare smaller, and after those that compare equal and stood before it.
SortedIndex(list, i) ==
    1 + Cardinality({j \in 1..Len(list) :
            LET c == Compare(list[j], list[i])
            IN c < 0 \/ (c = 0 /\ j < i)})

\* A list already in order is left as it is.
sortItems(list) ==
    IF \A i \in 1..(Len(list) - 1) : Compare(list[i], list[i + 1]) <= 0
    THEN list
    ELSE LET index == [i \in 1..Len(list) |-> SortedIndex(list, i)]
         IN [k \in 1..Len(list) |-> list[CHOOSE i \in 1..Len(list) : index[i] = k]]

Filter(list, src) == SelectSeq(list, LAMBDA item : item.source # src)

\* The duplicate test of mergeItems for one existing entry, lines 465-468, as
\* written: ids holds defined ids only, and no timestamp is undefined.
IsDuplicate(item, ids, timestamps) ==
    \/ item.id = 0 /\ 0 \in ids
    \/ FALSE /\ item.timestamp \in timestamps

\* The while (i--) loop of mergeItems over the first
\* min(SubsequentPageSize, length) entries.
RemoveDuplicates(list, ids, timestamps) ==
    LET n == Min(SubsequentPageSize, Len(list))
    IN SelectSeq(SubSeq(list, 1, n), LAMBDA item : ~IsDuplicate(item, ids, timestamps))
       \o SubSeq(list, n + 1, Len(list))

\* mergeItems: the new list; its return value is MergeChanged.
MergeChanged(page) == page # <<>>

mergeItems(list, page, before) ==
    IF page = <<>> THEN list
    ELSE IF before
    THEN LET ids == {page[i].id : i \in {j \in 1..Len(page) : page[j].id # 0}}
             timestamps == {page[i].timestamp : i \in {j \in 1..Len(page) : page[j].id = 0}}
         IN sortItems(page \o RemoveDuplicates(list, ids, timestamps))
    ELSE sortItems(list \o page)

\* replaceItems: the new list; its return value is ReplaceChanged.
HasSource(list, src) == \E i \in 1..Len(list) : list[i].source = src

ReplaceChanged(list, src, page) == page # <<>> \/ HasSource(list, src)

\* replaceItems without the filter of lines 486 and 495.
replaceItemsKeeping(list, src, page) ==
    IF page # <<>> THEN sortItems(list \o page) ELSE list

replaceItems(list, src, page) ==
    IF page # <<>> THEN sortItems(Filter(list, src) \o page)
    ELSE IF list # <<>> /\ HasSource(list, src) THEN Filter(list, src)
    ELSE list

----------------------------------------------------------------------------
\* Requests and the cursor table.

NoCursorTable == [s \in Sources |-> NoEntry]
NoPendingTable == [s \in Sources |-> NoPending]

\* The order in which a loop over the sources visits them.
Order(s) == IF s = "git2" THEN 1 ELSE 2

\* timelineService.getTimeline answers undefined for a source that is not
\* registered when the handler runs.
GetTimelineDefined(s) == s \in providers'

\* The tree shows the element objects of this._items: an icon set on the
\* sentinel of the list is seen through the tree as well.
Alias(tr, list) ==
    IF tr.defined /\ \E i \in 1..Len(list) : isLoadMoreCommandItem(list[i])
    THEN LET sentinel == list[CHOOSE i \in 1..Len(list) : isLoadMoreCommandItem(list[i])]
         IN [tr EXCEPT !.list = [i \in 1..Len(tr.list) |->
                IF isLoadMoreCommandItem(tr.list[i]) THEN sentinel ELSE tr.list[i]]]
    ELSE tr

\* refresh()
Refresh(list) ==
    /\ loadingTimer' = NoTimer
    /\ message' = IF Len(list) = 0 THEN MsgNoInfo ELSE MsgNone
    /\ tree' = [defined |-> TRUE, list |-> list]

\* loadTimeline, lines 272-285: the sentinel at the end of the list turns busy.
MarkBusy(list) ==
    IF Len(list) > 0 /\ isLoadMoreCommandItem(list[Len(list)])
    THEN [list EXCEPT ![Len(list)].themeIcon = Spin]
    ELSE list

\* The token sources still held by a request whose result has not settled.
Tokens(reqs) == {r.token : r \in reqs}

\* Whether the loop body of loadTimeline reaches a getTimeline that answers.
Issues(s, reset, cur) ==
    /\ reset \/ (cur[s].present /\ cur[s].more)
    /\ GetTimelineDefined(s)

NewId(s, filtered, reset, cur) ==
    nreq + Cardinality({t \in filtered : Issues(t, reset, cur) /\ Order(t) <= Order(s)})

\* The request getTimeline returns for a source, lines 291-335.
NewRequest(s, filtered, reset, before, u, cur, pend) ==
    IF reset
    THEN [id |-> NewId(s, filtered, reset, cur), source |-> s, uri |-> u,
          cursor |-> 0, before |-> before,
          limit |-> InitialPageSize,
          upTo |-> IF cur[s].present THEN cur[s].endCursors.after ELSE 0,
          token |-> NewId(s, filtered, reset, cur)]
    ELSE [id |-> NewId(s, filtered, reset, cur), source |-> s, uri |-> u,
          cursor |-> IF before THEN cur[s].startCursors.before
                     ELSE IF cur[s].endCursors # NoCursors THEN cur[s].endCursors.after
                     ELSE cur[s].startCursors.after,
          before |-> before,
          limit |-> SubsequentPageSize,
          upTo |-> 0,
          token |-> IF pend[s].id # 0 THEN pend[s].token ELSE NewId(s, filtered, reset, cur)]

\* The for loop of loadTimeline, lines 287-338.
IssueRequests(filtered, reset, before, u, cur, pend, canc) ==
    LET issued == {s \in filtered : Issues(s, reset, cur)}
        new == {NewRequest(s, filtered, reset, before, u, cur, pend) : s \in issued}
    IN /\ nreq + Cardinality(issued) <= MaxRequests
       /\ nreq' = nreq + Cardinality(issued)
       /\ requests' = requests \cup new
       /\ cancelled' = Tokens(requests) \cap (canc \cup
              (IF reset THEN {pend[s].token : s \in {t \in filtered : pend[t].id # 0}} ELSE {}))
       /\ pending' = [s \in Sources |->
              IF s \in issued
              THEN LET r == NewRequest(s, filtered, reset, before, u, cur, pend)
                   IN [id |-> r.id, token |-> r.token]
              ELSE IF s \in filtered /\ reset THEN NoPending
              ELSE pend[s]]

\* loadTimeline(reset, sources, options) called with this._uri = u,
\* this._excludedSources = ex and this._items = list; hasSources is
\* sources !== undefined.
loadTimeline(reset, hasSources, sources, before, u, ex, list) ==
    LET full == ~hasSources /\ reset
        list1 == IF full THEN <<>> ELSE list
        cur1 == IF full THEN NoCursorTable ELSE cursors
        timer1 == IF full THEN NoTimer ELSE loadingTimer
        canc1 == IF full
                 THEN cancelled \cup {pending[s].token : s \in {t \in Sources : pending[t].id # 0}}
                 ELSE cancelled
        pend1 == IF full THEN NoPendingTable ELSE pending
        timer2 == IF full /\ u # NoUri THEN [live |-> TRUE, uri |-> u] ELSE timer1
        filtered == (IF hasSources THEN sources ELSE providers) \ ex
    IN IF ~hasSources /\ u # NoUri /\ u.scheme \in UnsupportedSchemes
       THEN /\ message' = MsgCannot
            /\ tree' = NoTree
            /\ items' = list1
            /\ cursors' = cur1
            /\ loadingTimer' = timer1
            /\ cancelled' = Tokens(requests) \cap canc1
            /\ pending' = pend1
            /\ UNCHANGED <<requests, nreq>>
       ELSE IF u = NoUri
       THEN /\ items' = list1
            /\ cursors' = cur1
            /\ loadingTimer' = timer2
            /\ cancelled' = Tokens(requests) \cap canc1
            /\ pending' = pend1
            /\ tree' = Alias(tree, list1)
            /\ UNCHANGED <<requests, nreq, message>>
       ELSE IF filtered = {}
       THEN /\ items' = list1
            /\ cursors' = cur1
            /\ cancelled' = Tokens(requests) \cap canc1
            /\ pending' = pend1
            /\ IF reset THEN Refresh(list1)
               ELSE /\ loadingTimer' = timer2
                    /\ tree' = Alias(tree, list1)
                    /\ UNCHANGED message
            /\ UNCHANGED <<requests, nreq>>
       ELSE /\ items' = MarkBusy(list1)
            /\ cursors' = cur1
            /\ loadingTimer' = timer2
            /\ tree' = Alias(tree, MarkBusy(list1))
            /\ IssueRequests(filtered, reset, before, u, cur1, pend1, canc1)
            /\ UNCHANGED message

----------------------------------------------------------------------------
\* handleRequest: the continuation that runs when a request's result settles.

Size(pend) == Cardinality({s \in Sources : pend[s].id # 0})

\* The test of lines 350-356 without its comparison of resources.
StaleByTokenOnly(r) == r.token \in cancelled

\* A request whose result handleRequest drops at lines 350-356.
Stale(r) == r.token \in cancelled \/ r.uri # uri

\* Lines 362-383: the cursor table after a Timeline arrived.
RecordPage(r, tl) ==
    IF ~tl.hasPaging THEN cursors
    ELSE IF ~cursors[r.source].present
    THEN [cursors EXCEPT ![r.source] =
            [present |-> TRUE, startCursors |-> tl.cursors, endCursors |-> NoCursors, more |-> tl.more]]
    ELSE IF r.before
    THEN [cursors EXCEPT ![r.source] =
            [present |-> TRUE,
             startCursors |-> tl.cursors,
             endCursors |-> IF @.endCursors = NoCursors THEN @.startCursors ELSE @.endCursors,
             more |-> tl.more]]
    ELSE [cursors EXCEPT ![r.source] =
            [present |-> TRUE,
             startCursors |-> IF @.startCursors = NoCursors THEN tl.cursors ELSE @.startCursors,
             endCursors |-> tl.cursors,
             more |-> tl.more]]

\* Lines 407-430 without the splice of line 427.
SettleSentinelKeeping(list, anyMore) ==
    IF Len(list) = 0 THEN list
    ELSE IF isLoadMoreCommandItem(list[Len(list)])
    THEN [list EXCEPT ![Len(list)].themeIcon = ""]
    ELSE IF anyMore THEN Append(list, CommandItem) ELSE list

\* Lines 407-430: the sentinel once no request is pending.
SettleSentinel(list, anyMore) ==
    IF Len(list) = 0 THEN list
    ELSE IF anyMore
    THEN IF isLoadMoreCommandItem(list[Len(list)])
         THEN [list EXCEPT ![Len(list)].themeIcon = ""]
         ELSE Append(list, CommandItem)
    ELSE IF isLoadMoreCommandItem(list[Len(list)])
         THEN SubSeq(list, 1, Len(list) - 1)
         ELSE list

\* handleRequest with a rejection taken as an empty page of the source: its
\* cursor entry and its items are dropped.
handleRequestAsEmptyPage(r, outcome) ==
    LET pend2 == [pending EXCEPT ![r.source] = NoPending]
        tl == Timeline(r)
        cur2 == RecordPage(r, tl)
        alreadyHadItems == Len(items) # 0
        changed == IF r.cursor # 0 THEN MergeChanged(tl.items)
                   ELSE ReplaceChanged(items, r.source, tl.items)
        list2 == IF r.cursor # 0 THEN mergeItems(items, tl.items, r.before)
                 ELSE replaceItems(items, r.source, tl.items)
        anyMore == (tl.hasPaging /\ tl.more) \/ \E s \in Sources : cur2[s].present /\ cur2[s].more
        list3 == IF Size(pend2) = 0 THEN SettleSentinel(list2, anyMore) ELSE list2
    IN /\ r \in requests
       /\ requests' = requests \ {r}
       /\ cancelled' = Tokens(requests \ {r}) \cap cancelled
       /\ pending' = pend2
       /\ UNCHANGED <<uri, excluded, providers, nreq, visible, grown, nvis, nenv, hidden>>
       /\ orphan' = (orphan /\ ~(/\ outcome = "timeline" /\ ~Stale(r) /\ changed
                                  /\ alreadyHadItems /\ Size(pend2) # 0))
       /\ IF outcome = "reject" /\ ~Stale(r)
          THEN /\ cursors' = [cursors EXCEPT ![r.source] = NoEntry]
               /\ items' = replaceItems(items, r.source, <<>>)
               /\ UNCHANGED <<loadingTimer, debounceTimer, tree, message>>
          ELSE IF outcome = "undefined" \/ Stale(r)
          THEN UNCHANGED <<cursors, items, loadingTimer, debounceTimer, tree, message>>
          ELSE /\ cursors' = cur2
               /\ IF ~changed
                  THEN /\ items' = items
                       /\ UNCHANGED debounceTimer
                       /\ IF Len(items) = 0 /\ Size(pend2) = 0
                          THEN Refresh(items)
                          ELSE UNCHANGED <<loadingTimer, tree, message>>
                  ELSE /\ items' = list3
                       /\ IF alreadyHadItems /\ Size(pend2) # 0
                          THEN /\ debounceTimer' = TRUE
                               /\ tree' = Alias(tree, list3)
                               /\ UNCHANGED <<loadingTimer, message>>
                          ELSE /\ Refresh(list3)
                               /\ UNCHANGED debounceTimer

handleRequest(r, outcome) ==
    LET pend2 == [pending EXCEPT ![r.source] = NoPending]
        tl == Timeline(r)
        cur2 == RecordPage(r, tl)
        alreadyHadItems == Len(items) # 0
        changed == IF r.cursor # 0 THEN MergeChanged(tl.items)
                   ELSE ReplaceChanged(items, r.source, tl.items)
        list2 == IF r.cursor # 0 THEN mergeItems(items, tl.items, r.before)
                 ELSE replaceItems(items, r.source, tl.items)
        anyMore == (tl.hasPaging /\ tl.more) \/ \E s \in Sources : cur2[s].present /\ cur2[s].more
        list3 == IF Size(pend2) = 0 THEN SettleSentinel(list2, anyMore) ELSE list2
    IN /\ r \in requests
       /\ requests' = requests \ {r}
       /\ cancelled' = Tokens(requests \ {r}) \cap cancelled
       /\ pending' = pend2
       /\ UNCHANGED <<uri, excluded, providers, nreq, visible, grown, nvis, nenv, hidden>>
       /\ orphan' = (orphan /\ ~(/\ outcome = "timeline" /\ ~Stale(r) /\ changed
                                  /\ alreadyHadItems /\ Size(pend2) # 0))
       /\ IF outcome \in {"reject", "undefined"} \/ Stale(r)
          THEN UNCHANGED <<cursors, items, loadingTimer, debounceTimer, tree, message>>
          ELSE /\ cursors' = cur2
               /\ IF ~changed
                  THEN /\ items' = items
                       /\ UNCHANGED debounceTimer
                       /\ IF Len(items) = 0 /\ Size(pend2) = 0
                          THEN Refresh(items)
                          ELSE UNCHANGED <<loadingTimer, tree, message>>
                  ELSE /\ items' = list3
                       /\ IF alreadyHadItems /\ Size(pend2) # 0
                          THEN /\ debounceTimer' = TRUE
                               /\ tree' = Alias(tree, list3)
                               /\ UNCHANGED <<loadingTimer, message>>
                          ELSE /\ Refresh(list3)
                               /\ UNCHANGED debounceTimer

Complete == \E r \in requests : \E outcome \in Outcomes : handleRequest(r, outcome)

----------------------------------------------------------------------------
\* The event handlers.

UriString(u) == <<u.scheme, u.path>>

\* The early return of onActiveEditorChanged, lines 151-155.
SameEditor(u) ==
    \/ UriString(u) = UriString(uri) /\ u # NoUri
    \/ /\ u.path = uri.path
       /\ u.scheme \in {"file", "git"}
       /\ uri.scheme \in {"file", "git"}

onActiveEditorChanged(u) ==
    /\ ~SameEditor(u)
    /\ uri' = u
    /\ UNCHANGED <<excluded, providers, debounceTimer, grown>>
    /\ loadTimeline(TRUE, FALSE, {}, FALSE, u, excluded, items)

ActiveEditorChanged ==
    /\ \E u \in Resources \cup {NoUri} :
        /\ visible
        /\ nenv < MaxEnv
        /\ nenv' = nenv + 1
        /\ UNCHANGED <<nvis, orphan, hidden>>
        /\ onActiveEditorChanged(u)
        /\ UNCHANGED visible

\* setVisible(true) subscribes and calls onActiveEditorChanged for the editor
\* that is active by then; setVisible(false) disposes the subscriptions.
SetVisible ==
    /\ nvis < MaxVisible
    /\ nvis' = nvis + 1
    /\ UNCHANGED <<nenv, hidden>>
    /\ visible' = ~visible
    /\ orphan' = IF visible THEN debounceTimer ELSE orphan
    /\ IF visible
       THEN UNCHANGED <<uri, excluded, providers, cursors, items, pending, requests, cancelled,
                        nreq, loadingTimer, debounceTimer, tree, message, grown>>
       ELSE \E u \in Resources \cup {NoUri} :
                IF SameEditor(u)
                THEN UNCHANGED <<uri, excluded, providers, cursors, items, pending, requests,
                                 cancelled, nreq, loadingTimer, debounceTimer, tree, message, grown>>
                ELSE onActiveEditorChanged(u)

onConfigurationChanged(ex) ==
    /\ excluded' = ex
    /\ UNCHANGED <<uri, providers, debounceTimer, visible, grown>>
    /\ loadTimeline(TRUE, FALSE, {}, FALSE, uri, ex, items)

ConfigurationChanged ==
    /\ \E ex \in SUBSET Sources :
        /\ ex # excluded
        /\ nenv < MaxEnv
        /\ nenv' = nenv + 1
        /\ UNCHANGED <<nvis, orphan>>
        /\ hidden' = (hidden \cap ex) \cup {s \in ex \ excluded : HasSource(items, s)}
        /\ onConfigurationChanged(ex)

\* onProvidersChanged for an event that names removed sources.
ProvidersRemoved ==
    /\ \E s \in providers :
        /\ visible
        /\ nenv < MaxEnv
        /\ nenv' = nenv + 1
        /\ UNCHANGED <<nvis, orphan, hidden>>
        /\ providers' = providers \ {s}
        /\ items' = replaceItems(items, s, <<>>)
        /\ UNCHANGED <<uri, excluded, cursors, pending, requests, cancelled, nreq,
                       loadingTimer, debounceTimer, tree, message, visible, grown>>

\* onProvidersChanged for an event that names added sources.
ProvidersAdded ==
    /\ \E s \in Sources \ providers :
        /\ visible
        /\ nenv < MaxEnv
        /\ nenv' = nenv + 1
        /\ UNCHANGED <<nvis, orphan, hidden>>
        /\ providers' = providers \cup {s}
        /\ UNCHANGED <<uri, excluded, debounceTimer, visible, grown>>
        /\ loadTimeline(TRUE, TRUE, {s}, FALSE, uri, excluded, items)

\* onTimelineChanged for the event e = { uri: eUri, id: eId, reset: eReset }.
onTimelineChanged(eUri, eId, eReset) ==
    /\ eUri = NoUri \/ UriString(eUri) # UriString(uri)
    /\ UNCHANGED <<uri, excluded, providers, debounceTimer, visible, grown>>
    /\ loadTimeline(eReset, eId # "", IF eId = "" THEN {} ELSE {eId}, ~eReset, uri, excluded, items)

TimelineChanged ==
    /\ \E eUri \in {NoUri, FileA}, eId \in Sources \cup {""}, eReset \in BOOLEAN :
        /\ visible
        /\ nenv < MaxEnv
        /\ nenv' = nenv + 1
        /\ UNCHANGED <<nvis, orphan, hidden>>
        /\ onTimelineChanged(eUri, eId, eReset)

\* onReset
Reset ==
    /\ visible
    /\ nenv < MaxEnv
    /\ nenv' = nenv + 1
    /\ UNCHANGED <<nvis, orphan, hidden>>
    /\ UNCHANGED <<uri, excluded, providers, debounceTimer, visible, grown>>
    /\ loadTimeline(TRUE, FALSE, {}, FALSE, uri, excluded, items)

\* The open handler without the test of line 606: a busy sentinel loads too.
LoadMoreWhileBusy ==
    /\ visible
    /\ tree.defined
    /\ \E i \in 1..Len(tree.list) : isLoadMoreCommandItem(tree.list[i])
    /\ nenv < MaxEnv
    /\ nenv' = nenv + 1
    /\ UNCHANGED <<nvis, orphan, hidden>>
    /\ UNCHANGED <<uri, excluded, providers, debounceTimer, visible, grown>>
    /\ loadTimeline(FALSE, FALSE, {}, FALSE, uri, excluded, items)

\* The open handler of renderBody, lines 604-611, for the sentinel the tree shows.
LoadMore ==
    /\ visible
    /\ tree.defined
    /\ \E i \in 1..Len(tree.list) :
          isLoadMoreCommandItem(tree.list[i]) /\ tree.list[i].themeIcon = ""
    /\ nenv < MaxEnv
    /\ nenv' = nenv + 1
    /\ UNCHANGED <<nvis, orphan, hidden>>
    /\ UNCHANGED <<uri, excluded, providers, debounceTimer, visible, grown>>
    /\ loadTimeline(FALSE, FALSE, {}, FALSE, uri, excluded, items)

\* The callback of this._loadingMessageTimer, lines 248-255.
LoadingTimerFires ==
    /\ loadingTimer.live
    /\ loadingTimer' = NoTimer
    /\ IF loadingTimer.uri # uri
       THEN UNCHANGED <<tree, message>>
       ELSE tree' = NoTree /\ message' = MsgLoading
    /\ UNCHANGED <<uri, excluded, providers, cursors, items, pending, requests, cancelled,
                   nreq, debounceTimer, visible, grown, nvis, nenv, orphan, hidden>>

\* The timer of refreshDebounced runs refresh().
DebounceFires ==
    /\ debounceTimer
    /\ debounceTimer' = FALSE
    /\ orphan' = FALSE
    /\ Refresh(items)
    /\ UNCHANGED <<uri, excluded, providers, cursors, items, pending, requests, cancelled,
                   nreq, visible, grown, nvis, nenv, hidden>>

\* A source gains a newer item.
Grow ==
    /\ grown < MaxGrow
    /\ nenv < MaxEnv
    /\ nenv' = nenv + 1
    /\ grown' = grown + 1
    /\ UNCHANGED <<uri, excluded, providers, cursors, items, pending, requests, cancelled,
                   nreq, loadingTimer, debounceTimer, tree, message, visible, nvis, orphan, hidden>>

----------------------------------------------------------------------------

Init ==
    /\ uri = NoUri
    /\ excluded \in SUBSET Sources
    /\ providers = Sources
    /\ cursors = NoCursorTable
    /\ items = <<>>
    /\ pending = NoPendingTable
    /\ requests = {}
    /\ cancelled = {}
    /\ nreq = 0
    /\ loadingTimer = NoTimer
    /\ debounceTimer = FALSE
    /\ tree = NoTree
    /\ message = MsgCannot
    /\ visible = FALSE
    /\ grown = 0
    /\ nvis = 0
    /\ nenv = 0
    /\ hidden = {}
    /\ orphan = FALSE

Next ==
    \/ ActiveEditorChanged
    \/ SetVisible
    \/ ConfigurationChanged
    \/ ProvidersRemoved
    \/ ProvidersAdded
    \/ TimelineChanged
    \/ Reset
    \/ LoadMore
    \/ Complete
    \/ LoadingTimerFires
    \/ DebounceFires
    \/ Grow

Spec == Init /\ [][Next]_vars

----------------------------------------------------------------------------
\* Properties

HasSentinel(list) == \E i \in 1..Len(list) : list[i].handle = LoadMoreHandle
HasRealItem(list) == \E i \in 1..Len(list) : list[i].handle # LoadMoreHandle

\* C1: a result that arrives after its request's token was cancelled, or
\* after the pane moved to another resource than the one the request was
\* issued for, leaves the item list, the cursor table and what the tree
\* shows as they were.
C1_StaleResultDropped ==
    [][\A r \in requests \ requests' :
          (r.token \in cancelled \/ r.uri # uri)
              => items' = items /\ cursors' = cursors /\ tree' = tree]_vars

\* The pane is on FileB and the second request, issued for FileB, is still
\* outstanding and not cancelled, yet its source has no pending entry: the
\* first request's result arrived after the second was issued, that is after
\* the first was cancelled, and its arrival removed the entry.
C1_StaleArrived ==
    /\ uri = FileB
    /\ nreq = 2
    /\ \E r \in requests :
          /\ requests = {r}
          /\ r.id = 2 /\ r.token = 2 /\ r.uri = FileB
          /\ r.token \notin cancelled
          /\ pending[r.source] = NoPending

\* C2: a source has at most one outstanding request that is not cancelled:
\* when loadTimeline issues a request for a source whose pending entry holds
\* an earlier request that is still outstanding, on the reset path or on the
\* incremental path, that earlier request is cancelled by the time the new
\* one is recorded.
C2_EarlierRequestCancelled ==
    [][\A n \in requests' \ requests : \A r \in requests :
          (r.source = n.source /\ pending[r.source].id = r.id)
              => r.token \in cancelled']_vars

\* C3: no two entries of the item list have the same handle.
C3_HandlesUnique ==
    \A i, j \in 1..Len(items) : items[i].handle = items[j].handle => i = j

\* The source names in ascending case-insensitive, numeric-aware order.
NamesAscending == <<"git2", "Git10">>
NamePosition(s) == CHOOSE k \in 1..Len(NamesAscending) : NamesAscending[k] = s

MayPrecede(a, b) ==
    \/ a.timestamp > b.timestamp
    \/ /\ a.timestamp = b.timestamp
       /\ \/ b.source = ""
          \/ a.source # "" /\ NamePosition(a.source) >= NamePosition(b.source)

Ordered(list) == \A i \in 1..(Len(list) - 1) : MayPrecede(list[i], list[i + 1])

\* C4: the item list, and the list the tree was given, are in descending
\* timestamp order; entries of equal timestamp are in reverse
\* case-insensitive numeric-aware order of their source names, an entry
\* without source after those with one.
C4_ListOrdered == Ordered(items) /\ (tree.defined => Ordered(tree.list))

\* Both sources contribute an item of the same timestamp, and the list ends
\* with the sentinel.
C4_TieListed ==
    /\ tree.defined /\ tree.list = items
    /\ HasSentinel(items)
    /\ \E i \in 1..(Len(items) - 1) :
          /\ items[i].timestamp = items[i + 1].timestamp
          /\ items[i].source = "Git10" /\ items[i + 1].source = "git2"

IdCount(list, id) == Cardinality({i \in 1..Len(list) : list[i].id = id})
StampCount(list, t) ==
    Cardinality({i \in 1..Len(list) : list[i].id = 0 /\ list[i].timestamp = t})
Window(list) == 1..Min(SubsequentPageSize, Len(list))

\* C5: when a page fetched in the before direction is merged and one of its
\* items has the id of an entry among the first SubsequentPageSize entries
\* of the list, the list holds exactly one entry of that id afterwards; the
\* same for items without id and their timestamps.
C5_DuplicateRemoved ==
    [][\A r \in requests \ requests' :
          (r.before /\ r.cursor # 0 /\ items' # items)
              => \A k \in 1..Len(PageItems(r)) :
                    LET p == PageItems(r)[k]
                    IN /\ (p.id # 0 /\ \E i \in Window(items) : items[i].id = p.id)
                            => IdCount(items', p.id) = 1
                       /\ (p.id = 0 /\ \E i \in Window(items) :
                                           items[i].id = 0 /\ items[i].timestamp = p.timestamp)
                            => StampCount(items', p.timestamp) = 1]_vars

NoSourceHasMore(cur) == \A s \in Sources : ~(cur[s].present /\ cur[s].more)

\* C6: when the last outstanding request is a load-more request, the list
\* holds the sentinel, and after the request's result is taken no source's
\* cursor has more = true, the sentinel is not in the list any more.
C6_SentinelRemoved ==
    [][\A r \in requests \ requests' :
          (/\ r.cursor # 0 /\ ~r.before
           /\ r.token \notin cancelled /\ r.uri = uri
           /\ HasSentinel(items)
           /\ requests' = {}
           /\ cursors' # cursors
           /\ NoSourceHasMore(cursors'))
              => ~HasSentinel(items')]_vars

\* C7: whenever no request is outstanding, the list holds a real item and
\* some source's cursor has more = true, the last entry of the list is the
\* sentinel and its themeIcon is unset.
C7_SentinelSettled ==
    (/\ requests = {}
     /\ HasRealItem(items)
     /\ \E s \in Sources : cursors[s].present /\ cursors[s].more)
        => /\ isLoadMoreCommandItem(items[Len(items)])
           /\ items[Len(items)].themeIcon = ""

\* The n newest of the 25 items git2 holds for FileA, newest first.
Newest(n) == [i \in 1..n |-> TimelineItem("git2", FileA, 25 - i + 1)]

Descending(list) == \A i \in 1..(Len(list) - 1) : list[i].timestamp > list[i + 1].timestamp

\* C8: with git2 as the only source, holding 25 items for FileA: when the
\* result of the first load is taken the list is the 20 newest items
\* followed by the sentinel; when the result of the load the sentinel
\* started is taken the list is all 25 items, newest first, without sentinel.
C8_PagedLoad ==
    [][\A r \in requests \ requests' :
          (/\ excluded = {"Git10"} /\ uri = FileA /\ grown = 0
           /\ Held("git2", FileA) = 25
           /\ requests = {r} /\ r.source = "git2" /\ r.uri = FileA
           /\ r.token \notin cancelled
           /\ cursors' # cursors)
              => /\ (r.id = 1 /\ r.cursor = 0)
                      => /\ items' = Newest(InitialPageSize) \o <<CommandItem>>
                         /\ tree' = [defined |-> TRUE, list |-> items']
                 /\ (/\ r.id = 2 /\ r.cursor # 0 /\ ~r.before
                     /\ items = Newest(InitialPageSize) \o <<[CommandItem EXCEPT !.themeIcon = Spin]>>)
                      => /\ items' = Newest(25)
                         /\ Descending(items')
                         /\ ~HasSentinel(items')
                         /\ tree' = [defined |-> TRUE, list |-> items']]_vars

\* The second request was the load the sentinel started and its result has
\* been taken: the list holds 25 items.
C8_AllLoaded ==
    /\ excluded = {"Git10"} /\ uri = FileA /\ grown = 0
    /\ nreq = 2 /\ requests = {}
    /\ cursors["git2"].endCursors = [before |-> 5, after |-> 1]
    /\ Len(items) = 25
    /\ tree.defined /\ tree.list = items

\* C9: a source that a configuration change excluded while its items were
\* in the list has no item in the list from then on, as long as it stays
\* excluded; and the reset of a configuration change issues requests to
\* sources that are not excluded only.
C9_ExcludedSourceGone ==
    [][/\ \A s \in hidden' : ~HasSource(items', s)
       /\ excluded' # excluded => \A n \in requests' \ requests : n.source \notin excluded']_vars

Supported(u) == u # NoUri /\ u.scheme \notin UnsupportedSchemes

\* C10: when the pane moves to a different supported resource, every
\* outstanding request is cancelled, the cursor table and the item list are
\* empty, and exactly one request is issued for every source that is not
\* excluded, with limit InitialPageSize.
C10_ResourceChangeResets ==
    [][(uri' # uri /\ Supported(uri'))
          => /\ \A r \in requests : r.token \in cancelled'
             /\ cursors' = NoCursorTable
             /\ items' = <<>>
             /\ \A s \in providers \ excluded :
                   Cardinality({n \in requests' \ requests : n.source = s}) = 1
             /\ \A n \in requests' \ requests :
                   /\ n.source \in providers \ excluded
                   /\ n.uri = uri'
                   /\ n.limit = InitialPageSize /\ n.upTo = 0]_vars

\* C11: when the result of a request that is neither cancelled nor issued
\* for another resource is undefined, the source's entry is gone from the
\* cursor table afterwards.
C11_UndefinedClearsCursor ==
    [][\A r \in requests :
          (/\ r.token \notin cancelled /\ r.uri = uri
           /\ handleRequest(r, "undefined"))
              => ~cursors'[r.source].present]_vars

\* C12: whenever the pane is on a supported resource, the list is empty and
\* no request is outstanding, the message is the no-timeline-information
\* message.
C12_NoInformationMessage ==
    (Supported(uri) /\ items = <<>> /\ requests = {}) => message = MsgNoInfo

\* C13: a timeline-changed notification loads exactly when it names the
\* current resource: on FileA a notification for FileA issues requests (a
\* full reset when its reset flag is set, a before-direction load of a
\* source with more = true otherwise), and while the pane is on another
\* resource a notification for FileA issues none.
C13_NotificationForCurrentResource ==
    /\ (/\ visible /\ uri = FileA /\ nenv < MaxEnv
        /\ providers \ excluded # {}
        /\ nreq + Cardinality(providers \ excluded) <= MaxRequests)
          => ENABLED (onTimelineChanged(FileA, "", TRUE) /\ requests' # requests)
    /\ \A s \in providers \ excluded :
          (/\ visible /\ uri = FileA /\ nenv < MaxEnv /\ nreq < MaxRequests
           /\ cursors[s].present /\ cursors[s].more)
             => ENABLED (/\ onTimelineChanged(FileA, s, FALSE)
                         /\ \E n \in requests' \ requests : n.before)
    /\ \A eId \in Sources \cup {""}, eReset \in BOOLEAN :
          (visible /\ uri # FileA)
             => ~ENABLED (onTimelineChanged(FileA, eId, eReset) /\ requests' # requests)

\* C14: no step that leaves the pane on a resource of an unsupported scheme
\* issues a request.
C14_NoRequestForUnsupported ==
    [][uri'.scheme \in UnsupportedSchemes => requests' \subseteq requests]_vars

\* C15: a source whose request never settles does not block the others.
\* When the only outstanding requests belong to other sources and no timer
\* is live, so that nothing more happens until one of those requests
\* settles, a source whose result was merged with more = true has its items
\* shown by the tree, and the list ends with the sentinel, not busy.
C15_OtherSourcesNotBlocked ==
    \A s \in Sources :
        (/\ Supported(uri)
         /\ cursors[s].present /\ cursors[s].more /\ HasSource(items, s)
         /\ requests # {}
         /\ \A r \in requests : r.source # s /\ r.uri = uri /\ r.token \notin cancelled
         /\ ~debounceTimer /\ ~loadingTimer.live)
            => /\ tree.defined /\ tree.list = items
               /\ isLoadMoreCommandItem(items[Len(items)])
               /\ items[Len(items)].themeIcon = ""

\* C16: a debounced refresh that was scheduled before the pane was
\* deactivated, and was not rescheduled since, never fires: no step is the
\* callback of that timer.
C16_NoRefreshAfterDeactivation ==
    [][~(orphan /\ DebounceFires)]_vars

\* C17: for every list the pane can hold, every source S and every page of
\* S, replaceItems(S, page) leaves as entries of S exactly the page and keeps
\* every entry of other sources, the sentinel included; with an empty page
\* it reports a change exactly when the list held an entry of S, and leaves
\* the list as it was when it reports none.
Occurrences(list, e) == Cardinality({i \in 1..Len(list) : list[i] = e})

SameEntries(a, b) ==
    \/ a = b
    \/ /\ Len(a) = Len(b)
       /\ \A i \in 1..Len(a) : Occurrences(a, a[i]) = Occurrences(b, a[i])

Pages(S) ==
    {<<>>, <<TimelineItem(S, FileB, 2), TimelineItem(S, FileB, 1)>>}

C17_ReplaceItems ==
    \A S \in Sources : \A page \in Pages(S) :
        LET out == replaceItems(items, S, page)
        IN /\ SameEntries(SelectSeq(out, LAMBDA e : e.source = S), page)
           /\ SameEntries(Filter(out, S), Filter(items, S))
           /\ page = <<>> => /\ ReplaceChanged(items, S, page) <=> HasSource(items, S)
                             /\ ~ReplaceChanged(items, S, page) => out = items

\* The list holds entries of both sources and the sentinel.
C17_BothSourcesListed ==
    /\ \A S \in Sources : HasSource(items, S)
    /\ HasSentinel(items)

\* C18: a step that activates the sentinel issues requests only to sources
\* that are not excluded and whose cursor entry has more = true; and while
\* the sentinel the tree shows is busy, activating it is no step at all: it
\* issues nothing and changes nothing.
LoadMoreRequest(r) == r.limit = SubsequentPageSize /\ ~r.before

SentinelBusy ==
    /\ tree.defined
    /\ \E i \in 1..Len(tree.list) :
          isLoadMoreCommandItem(tree.list[i]) /\ tree.list[i].themeIcon # ""

C19_LoadMoreIsBefore ==
    [][LoadMore => \A n \in requests' \ requests :
                      /\ n.before
                      /\ n.cursor = cursors[n.source].startCursors.before]_vars

\* C20: a step in which a request settles and the list changes replaces the
\* tree's children at once when the list was empty before or no other live
\* request (not cancelled, for the current resource) is outstanding; when
\* the list had items and another live request is outstanding it leaves the
\* tree's children alone and the debounce timer live; and the timer, however
\* often it was rescheduled, fires once and replaces the children with the
\* list.
C20_PushOrDebounce ==
    [][/\ (requests' # requests /\ requests' \subseteq requests /\ items' # items) =>
             IF /\ Len(items) # 0
                /\ \E q \in requests' : q.token \notin cancelled' /\ q.uri = uri'
             THEN debounceTimer' /\ tree' # [defined |-> TRUE, list |-> items']
             ELSE tree' = [defined |-> TRUE, list |-> items'] /\ debounceTimer' = debounceTimer
       /\ DebounceFires => ~debounceTimer' /\ tree' = [defined |-> TRUE, list |-> items]]_vars

\* C21: a step that removes source S from the provider set removes every
\* entry of S from the list, leaves the other entries in their order and
\* issues no request; and after every step the list holds no entry of a
\* source that is not in the provider set, whether or not a request to that
\* source was outstanding when it was removed.
C21_RemovedSourceStaysGone ==
    [][/\ \A s \in providers \ providers' :
             /\ items' = Filter(items, s)
             /\ requests' = requests
       /\ \A s \in Sources \ providers' : ~HasSource(items', s)]_vars

\* C22: a step in which a request's fetch rejects leaves every cursor entry
\* and the list as they were; of the pane's state it changes only the
\* pending-request entry of the request's source, which it removes.
C22_RejectLeavesState ==
    [][\A r \in requests :
          handleRequest(r, "reject") =>
              /\ cursors' = cursors
              /\ items' = items
              /\ pending' = [pending EXCEPT ![r.source] = NoPending]
              /\ UNCHANGED <<uri, excluded, loadingTimer, debounceTimer, tree, message>>]_vars

\* Nothing is outstanding or recorded as pending, and the list - real items
\* of a source with a cursor entry - still ends with the busy sentinel of
\* the load whose fetch settled without a page.
C22_SettledWithoutPage ==
    /\ requests = {}
    /\ Size(pending) = 0
    /\ \E s \in Sources : cursors[s].present /\ HasSource(items, s)
    /\ isLoadMoreCommandItem(items[Len(items)])
    /\ items[Len(items)].themeIcon = Spin

\* C23: the pending-request table records the live requests. A step in
\* which a request settles removes no entry but that request's own, so a
\* request that superseded it stays recorded; and a full reset leaves every
\* request that is still outstanding cancelled.
C23_OwnEntryRemoved ==
    [][/\ \A r \in requests \ requests' : \A s \in Sources :
             pending[s].id # r.id => pending'[s] = pending[s]
       /\ Reset => \A q \in requests : q.token \in cancelled']_vars

\* C24: whenever no request is outstanding and neither the debounce timer
\* nor the loading timer is live, the children last given to the tree (none
\* when it was cleared) are the current list.
C24_TreeShowsList ==
    (requests = {} /\ ~debounceTimer /\ ~loadingTimer.live)
        => (IF tree.defined THEN tree.list ELSE <<>>) = items

\* C25: a step in which a non-reset request settles only grows the list:
\* every real item of the list is still listed afterwards, unless the page
\* holds an item with the same id, or with the same timestamp when the item
\* has no id; whatever cursor the request carried, none included.
Replaces(new, old) ==
    IF old.id # 0 THEN new.id = old.id
    ELSE new.id = 0 /\ new.timestamp = old.timestamp

C25_IncrementalOnlyGrows ==
    [][\A r \in requests \ requests' :
          r.limit = SubsequentPageSize =>
              \A i \in 1..Len(items) :
                  items[i].handle # LoadMoreHandle =>
                      \/ \E j \in 1..Len(items') : items'[j] = items[i]
                      \/ \E k \in 1..Len(PageItems(r)) : Replaces(PageItems(r)[k], items[i])]_vars

====
